---- MODULE Spec2Model ----
(***************************************************************************)
(* simple-load-test (main.go): sendRequests and its goroutines.            *)
(*                                                                         *)
(* Processes of one run:                                                   *)
(*   controller   sendRequests itself, blocked on <-fatal (line 116)       *)
(*   aggregator   the goroutine counting responses (lines 65-73)           *)
(*   reporter     the goroutine logging the counters (lines 76-81)         *)
(*   scheduler    the goroutine driven by the timer (lines 99-114)         *)
(*   workers      one sendNRequests goroutine per batch (lines 122-145)    *)
(* Both channels are unbuffered: a send and its receive are one step.      *)
(***************************************************************************)
EXTENDS Integers, Sequences, FiniteSets, TLC

\* ---------------------------------------------------------------- bounds
\* largest --requests-per-second explored by Spec
MaxRps == 2
\* number of timer ticks the scheduler processes before the model stops it
MaxTicks == 2
\* number of requests the workers issue before the model stops issuing more
MaxRequests == 3
\* largest --requests-per-second explored by SchedSpec
MaxRate == 65

\* ------------------------------------------------------------- constants
maxRequestsPerThread == 20

\* status codes a completed exchange can carry
StatusCodes == {200, 404}

\* --ok-codes lists explored by OkSpec: the default, the empty list, a list
\* with a duplicate, and a list whose match is not its first element
OkLists == {<<200>>, <<>>, <<200, 200>>, <<204, 200>>}

VARIABLES
    rps,        \* requestsPerSecond (run configuration)
    cap,        \* per-worker request cap: maxRequestsPerThread, except in SchedSpec
    okCodes,    \* okCodes (run configuration), a sequence
    proc,       \* the process: "running", "exited" (os.Exit), "crashed" (panic)
    ctl,        \* controller: "wait" (116, blocked on <-fatal), "fatal" (117)
    okCount,    \* line 60
    errCount,   \* line 60
    aggPc,      \* aggregator: "recv" (66) or "count" (67-71)
    aggR,       \* the value r the aggregator holds
    repPc,      \* reporter: "sum1","sum2","ok","err" (the four reads of line 78), "log"
    repSent,    \* first argument of line 78, okCount+errCount
    repOk,      \* second argument of line 78
    repErr,     \* third argument of line 78
    timerArmed, \* the timer is set to fire
    timerC,     \* number of values in timer.C (capacity 1)
    schedPc,    \* scheduler: "wait" (101), "spawn" (104-111)
    schedI,     \* loop variable i of line 104
    ticks,      \* number of ticks received from timer.C
    workers,    \* the sendNRequests goroutines, in spawn order
    sentTrue,   \* history: Outcome events true handed over on responses
    sentFalse   \* history: Outcome events false handed over on responses

vars == <<rps, cap, okCodes, proc, ctl, okCount, errCount, aggPc, aggR, repPc,
          repSent, repOk, repErr, timerArmed, timerC, schedPc, schedI, ticks,
          workers, sentTrue, sentFalse>>

cfgVars == <<rps, cap, okCodes>>
aggVars == <<okCount, errCount, aggPc, aggR>>
repVars == <<repPc, repSent, repOk, repErr>>
schedVars == <<timerArmed, timerC, schedPc, schedI, ticks>>
histVars == <<sentTrue, sentFalse>>

\* ------------------------------------------------------- pure functions

\* mutant of numThreads: the "+ 1" of line 94 forgotten
numThreadsNoPlusOne(r, c) == r \div c

\* line 94: numThreads := (rps / maxRequestsPerThread) + 1
numThreads(r, c) == (r \div c) + 1

\* mutant of reqsForThisThread: the clamp of lines 106-108 forgotten
reqsNotClamped(r, c, i) == r % ((i + 1) * c)

\* mutant of reqsForThisThread: full batches first, the remainder last
reqsExactPartition(r, c, i) == IF i < r \div c THEN c ELSE r % c

\* mutant of reqsForThisThread: every thread gets the cap
reqsAlwaysCap(r, c, i) == c

\* lines 105-108: the batch size of thread i
reqsForThisThread(r, c, i) ==
    LET m == r % ((i + 1) * c)
    IN  IF m > c THEN c ELSE m

\* lines 137-143: the loop over okCodes, true at the first equal element
RECURSIVE codeMatches(_, _, _)
codeMatches(codes, j, status) ==
    IF j > Len(codes) THEN FALSE
    ELSE IF codes[j] = status THEN TRUE
    ELSE codeMatches(codes, j + 1, status)

\* mutant of outcomeOf: only the first element of okCodes is compared
outcomeOfFirstOnly(codes, status) == Len(codes) > 0 /\ codes[1] = status

\* the Outcome sendRequest emits for a response with this status code
outcomeOf(codes, status) == codeMatches(codes, 1, status)

\* mutants of countResponse: every response counted as ok; a false response
\* not counted; the else of line 69 forgotten
countResponseAllOk(r, ok, err) == <<ok + 1, err>>
countResponseDropsFalse(r, ok, err) == IF r THEN <<ok + 1, err>> ELSE <<ok, err>>
countResponseNoElse(r, ok, err) == IF r THEN <<ok + 1, err + 1>> ELSE <<ok, err + 1>>

\* lines 67-71: the aggregator's update of <<okCount, errCount>> for r
countResponse(r, ok, err) == IF r THEN <<ok + 1, err>> ELSE <<ok, err + 1>>

\* a goroutine started by line 110 for thread i of tick t with batch size n
\*   pc: "loop" (124), "sendOut" (139/143), "sendFatal" (133), "close" (135)
\*   i: completed iterations of the loop of line 124
\*   tries/outs/fatals: history of the attempts made and the events delivered
newWorker(t, idx, n) ==
    [tick |-> t, idx |-> idx, n |-> n, i |-> 0, pc |-> "loop", status |-> 0,
     tries |-> 0, outs |-> 0, fatals |-> 0]

Running == proc = "running"

\* history: the number of requests issued so far (calls of h.Do, line 131)
RECURSIVE issuedUpTo(_)
issuedUpTo(k) == IF k = 0 THEN 0 ELSE workers[k].tries + issuedUpTo(k - 1)
issued == issuedUpTo(Len(workers))

\* ------------------------------------------------------------------ Init

InitRest ==
    /\ proc = "running"
    /\ ctl = "wait"
    /\ okCount = 0 /\ errCount = 0
    /\ aggPc = "recv" /\ aggR = FALSE
    /\ repPc = "sum1" /\ repSent = 0 /\ repOk = 0 /\ repErr = 0
    /\ timerArmed = TRUE /\ timerC = 0
    /\ schedPc = "wait" /\ schedI = 0 /\ ticks = 0
    /\ workers = <<>>
    /\ sentTrue = 0 /\ sentFalse = 0

\* the default --ok-codes (line 156), every rate up to MaxRps
Init ==
    /\ rps \in 0..MaxRps
    /\ cap = maxRequestsPerThread
    /\ okCodes = <<200>>
    /\ InitRest

\* the default rate (line 153) and the source's cap, every list of OkLists
OkInit ==
    /\ rps = 1
    /\ cap = maxRequestsPerThread
    /\ okCodes \in OkLists
    /\ InitRest

\* every rate up to MaxRate and every cap up to the source's
SchedInit ==
    /\ rps \in 0..MaxRate
    /\ cap \in 1..maxRequestsPerThread
    /\ okCodes = <<200>>
    /\ InitRest


\* ------------------------------------------------------------- scheduler

\* the runtime fires the timer: a value is put in timer.C
TimerFire ==
    /\ Running /\ timerArmed
    /\ timerArmed' = FALSE
    /\ timerC' = 1
    /\ UNCHANGED <<cfgVars, proc, ctl, aggVars, repVars, schedPc, schedI, ticks,
                   workers, histVars>>

\* mutant of SchedWait: a tick starts only when every earlier worker has
\* returned
SchedWaitForWorkers ==
    /\ Running /\ schedPc = "wait" /\ timerC = 1
    /\ ticks < MaxTicks
    /\ \A w \in DOMAIN workers : workers[w].pc = "loop" /\ workers[w].i = workers[w].n
    /\ timerC' = 0
    /\ ticks' = ticks + 1
    /\ schedPc' = "spawn"
    /\ schedI' = 0
    /\ UNCHANGED <<cfgVars, proc, ctl, aggVars, repVars, timerArmed, workers, histVars>>

\* line 101: <-timer.C
SchedWait ==
    /\ Running /\ schedPc = "wait" /\ timerC = 1
    /\ ticks < MaxTicks
    /\ timerC' = 0
    /\ ticks' = ticks + 1
    /\ schedPc' = "spawn"
    /\ schedI' = 0
    /\ UNCHANGED <<cfgVars, proc, ctl, aggVars, repVars, timerArmed, workers, histVars>>

\* mutant of SchedSpawn: the batch is reduced by the requests of earlier
\* batches that are still outstanding
SchedSpawnLessOutstanding ==
    /\ Running /\ schedPc = "spawn" /\ schedI < numThreads(rps, cap)
    /\ LET n == reqsForThisThread(rps, cap, schedI)
           busy == Cardinality({w \in DOMAIN workers : workers[w].i < workers[w].n})
       IN  workers' = Append(workers,
                             newWorker(ticks, schedI, IF n > busy THEN n - busy ELSE 0))
    /\ schedI' = schedI + 1
    /\ UNCHANGED <<cfgVars, proc, ctl, aggVars, repVars, timerArmed, timerC, schedPc,
                   ticks, histVars>>

\* lines 104-111: one iteration of the loop, starting one goroutine
SchedSpawn ==
    /\ Running /\ schedPc = "spawn" /\ schedI < numThreads(rps, cap)
    /\ workers' = Append(workers,
                         newWorker(ticks, schedI, reqsForThisThread(rps, cap, schedI)))
    /\ schedI' = schedI + 1
    /\ UNCHANGED <<cfgVars, proc, ctl, aggVars, repVars, timerArmed, timerC, schedPc,
                   ticks, histVars>>

\* mutant of SchedReset: line 112 forgotten, the timer is not set again
SchedResetForgotten ==
    /\ Running /\ schedPc = "spawn" /\ schedI >= numThreads(rps, cap)
    /\ schedPc' = "wait"
    /\ UNCHANGED <<cfgVars, proc, ctl, aggVars, repVars, timerArmed, timerC, schedI,
                   ticks, workers, histVars>>

\* line 112: timer.Reset(time.Second), after the loop
SchedReset ==
    /\ Running /\ schedPc = "spawn" /\ schedI >= numThreads(rps, cap)
    /\ timerArmed' = TRUE
    /\ schedPc' = "wait"
    /\ UNCHANGED <<cfgVars, proc, ctl, aggVars, repVars, timerC, schedI, ticks,
                   workers, histVars>>

\* --------------------------------------------------------------- workers

\* mutant of DoResponse: the loop of line 124 runs while i <= n
DoResponseOneTooMany(w) ==
    /\ Running /\ w \in DOMAIN workers
    /\ workers[w].pc = "loop" /\ workers[w].i <= workers[w].n
    /\ issued < MaxRequests
    /\ \E s \in StatusCodes :
         workers' = [workers EXCEPT ![w].pc = "sendOut", ![w].status = s,
                                    ![w].tries = @ + 1]
    /\ UNCHANGED <<cfgVars, proc, ctl, aggVars, repVars, schedVars, histVars>>

\* line 131: h.Do(req) returns a response with a status code
DoResponse(w) ==
    /\ Running /\ w \in DOMAIN workers
    /\ workers[w].pc = "loop" /\ workers[w].i < workers[w].n
    /\ issued < MaxRequests
    /\ \E s \in StatusCodes :
         workers' = [workers EXCEPT ![w].pc = "sendOut", ![w].status = s,
                                    ![w].tries = @ + 1]
    /\ UNCHANGED <<cfgVars, proc, ctl, aggVars, repVars, schedVars, histVars>>

\* line 131: h.Do(req) returns a transport error (resp is nil)
DoError(w) ==
    /\ Running /\ w \in DOMAIN workers
    /\ workers[w].pc = "loop" /\ workers[w].i < workers[w].n
    /\ issued < MaxRequests
    /\ workers' = [workers EXCEPT ![w].pc = "sendFatal", ![w].tries = @ + 1]
    /\ UNCHANGED <<cfgVars, proc, ctl, aggVars, repVars, schedVars, histVars>>

\* lines 135-143 with line 66: the body is closed, the status code is looked
\* up in okCodes and the Outcome is handed to the aggregator
SendOutcome(w) ==
    /\ Running /\ w \in DOMAIN workers
    /\ workers[w].pc = "sendOut"
    /\ aggPc = "recv"
    /\ LET r == outcomeOf(okCodes, workers[w].status)
       IN  /\ aggR' = r
           /\ sentTrue' = IF r THEN sentTrue + 1 ELSE sentTrue
           /\ sentFalse' = IF r THEN sentFalse ELSE sentFalse + 1
    /\ aggPc' = "count"
    /\ workers' = [workers EXCEPT ![w].pc = "loop", ![w].status = 0,
                                  ![w].i = @ + 1, ![w].outs = @ + 1]
    /\ UNCHANGED <<cfgVars, proc, ctl, okCount, errCount, repVars, schedVars>>

\* mutant of SendFatal: the controller receives from fatal again and again
SendFatalReceivedAgain(w) ==
    /\ Running /\ w \in DOMAIN workers
    /\ workers[w].pc = "sendFatal"
    /\ ctl' = "fatal"
    /\ workers' = [workers EXCEPT ![w].pc = "close", ![w].fatals = @ + 1]
    /\ UNCHANGED <<cfgVars, proc, aggVars, repVars, schedVars, histVars>>

\* line 133 with line 116: fatal <- err meets the controller's e := <-fatal
SendFatal(w) ==
    /\ Running /\ w \in DOMAIN workers
    /\ workers[w].pc = "sendFatal"
    /\ ctl = "wait"
    /\ ctl' = "fatal"
    /\ workers' = [workers EXCEPT ![w].pc = "close", ![w].fatals = @ + 1]
    /\ UNCHANGED <<cfgVars, proc, aggVars, repVars, schedVars, histVars>>

\* mutant of NilDeref: line 135 does not panic and the worker goes on to
\* lines 137-143 with a zero status code
NilDerefFallsThrough(w) ==
    /\ Running /\ w \in DOMAIN workers
    /\ workers[w].pc = "close"
    /\ workers' = [workers EXCEPT ![w].pc = "sendOut", ![w].status = 0]
    /\ UNCHANGED <<cfgVars, proc, ctl, aggVars, repVars, schedVars, histVars>>

\* line 135: resp.Body.Close() on the nil response panics; the panic of a
\* goroutine ends the process
NilDeref(w) ==
    /\ Running /\ w \in DOMAIN workers
    /\ workers[w].pc = "close"
    /\ proc' = "crashed"
    /\ UNCHANGED <<cfgVars, ctl, aggVars, repVars, schedVars, workers, histVars>>

\* ------------------------------------------------------------ aggregator

\* lines 67-71
AggCount ==
    /\ Running /\ aggPc = "count"
    /\ okCount' = countResponse(aggR, okCount, errCount)[1]
    /\ errCount' = countResponse(aggR, okCount, errCount)[2]
    /\ aggPc' = "recv"
    /\ aggR' = FALSE
    /\ UNCHANGED <<cfgVars, proc, ctl, repVars, schedVars, workers, histVars>>

\* -------------------------------------------------------------- reporter
\* The arguments of line 78 are evaluated left to right, each read of a
\* counter on its own: the counters are plain ints written by the aggregator
\* with no synchronisation.

\* line 78, first argument okCount+errCount: read of okCount
RepSum1 ==
    /\ Running /\ repPc = "sum1"
    /\ repSent' = okCount
    /\ repPc' = "sum2"
    /\ UNCHANGED <<cfgVars, proc, ctl, aggVars, repOk, repErr, schedVars, workers,
                   histVars>>

\* line 78, first argument: read of errCount
RepSum2 ==
    /\ Running /\ repPc = "sum2"
    /\ repSent' = repSent + errCount
    /\ repPc' = "ok"
    /\ UNCHANGED <<cfgVars, proc, ctl, aggVars, repOk, repErr, schedVars, workers,
                   histVars>>

\* line 78, second argument okCount
RepOk ==
    /\ Running /\ repPc = "ok"
    /\ repOk' = okCount
    /\ repPc' = "err"
    /\ UNCHANGED <<cfgVars, proc, ctl, aggVars, repSent, repErr, schedVars, workers,
                   histVars>>

\* line 78, third argument errCount
RepErr ==
    /\ Running /\ repPc = "err"
    /\ repErr' = errCount
    /\ repPc' = "log"
    /\ UNCHANGED <<cfgVars, proc, ctl, aggVars, repSent, repOk, schedVars, workers,
                   histVars>>

\* lines 78-79: Infof writes the line "Sent repSent requests, repOk ok, repErr
\* failures", then the reporter sleeps and starts over
RepLog ==
    /\ Running /\ repPc = "log"
    /\ repSent' = 0 /\ repOk' = 0 /\ repErr' = 0
    /\ repPc' = "sum1"
    /\ UNCHANGED <<cfgVars, proc, ctl, aggVars, schedVars, workers, histVars>>

\* ------------------------------------------------------------ controller

\* line 117: logger.Fatal(e) logs e and ends the process with os.Exit(1);
\* lines 118-119 are not reached
CtlFatal ==
    /\ Running /\ ctl = "fatal"
    /\ proc' = "exited"
    /\ UNCHANGED <<cfgVars, ctl, aggVars, repVars, schedVars, workers, histVars>>

\* ------------------------------------------------------------------ Next

Scheduler == TimerFire \/ SchedWait \/ SchedSpawn \/ SchedReset
Worker(w) == DoResponse(w) \/ DoError(w) \/ SendOutcome(w) \/ SendFatal(w) \/ NilDeref(w)
Reporter == RepSum1 \/ RepSum2 \/ RepOk \/ RepErr \/ RepLog

Next ==
    \/ Scheduler
    \/ \E w \in DOMAIN workers : Worker(w)
    \/ AggCount
    \/ Reporter
    \/ CtlFatal

Spec == Init /\ [][Next]_vars

\* the whole program under every ok-codes list
OkSpec == OkInit /\ [][Next]_vars

\* the scheduler alone: the partition of the rate into batches
SchedSpec == SchedInit /\ [][Scheduler]_vars

\* ids of the goroutines line 110 can start within the bounds of Spec
WorkerIds == 1..(MaxTicks * numThreads(MaxRps, maxRequestsPerThread))

\* The Go scheduler runs every runnable goroutine eventually, and a goroutine
\* blocked on a channel send waits in the channel's FIFO queue, so a receiver
\* that keeps receiving serves it.
Fairness ==
    /\ WF_vars(AggCount)
    /\ \A w \in WorkerIds : SF_vars(SendOutcome(w))
    /\ \A w \in WorkerIds : WF_vars(NilDeref(w))
    /\ WF_vars(CtlFatal)

\* The reporter reads the counters and writes only its own locals, which no
\* other goroutine reads: the behaviours of the others are the same without it.
FairNext ==
    \/ Scheduler
    \/ \E w \in DOMAIN workers : Worker(w)
    \/ AggCount
    \/ CtlFatal

FairSpec == Init /\ [][FairNext]_vars /\ Fairness

\* -------------------------------------------------------------- helpers

Range(f) == {f[x] : x \in DOMAIN f}
Min(a, b) == IF a < b THEN a ELSE b

\* the goroutine of worker w has returned from sendNRequests
WorkerDone(w) == workers[w].pc = "loop" /\ workers[w].i = workers[w].n

\* Outcome events handed over on the responses channel so far
sent == sentTrue + sentFalse

\* ---------------------------------------------------------------- claims

\* C1: once the controller has received the Fatal event (line 116) the
\* scheduler starts no further worker: no step taken while the controller is
\* past its receive adds a goroutine.
C1_NoSpawnAfterFatal ==
    [][ctl = "fatal" => Len(workers') = Len(workers)]_vars

\* the step in which a worker leaves "sendOut" delivers one value to the
\* aggregator, true iff the status code is an element of okCodes, and is the
\* worker's only event for the request
C2_Step ==
    \A w \in DOMAIN workers :
        (workers[w].pc = "sendOut" /\ workers'[w].pc # "sendOut") =>
            /\ aggPc' = "count"
            /\ aggR' = (workers[w].status \in Range(okCodes))
            /\ workers'[w].outs = workers[w].outs + 1
            /\ workers'[w].fatals = workers[w].fatals
            /\ sentTrue' + sentFalse' = sent + 1

\* a worker has handed over one Outcome for each exchange it completed
C2_OneOutcomePerExchange ==
    \A w \in DOMAIN workers :
        /\ workers[w].pc = "loop" /\ workers[w].fatals = 0
              => workers[w].outs = workers[w].tries
        /\ workers[w].pc = "sendOut" => workers[w].outs = workers[w].tries - 1

\* C2: for every completed exchange and every ok-codes list (the empty list
\* and a list with a duplicate included), sendRequest emits exactly one
\* Outcome, and it is true iff the status code is an element of the list.
C2_OutcomeIffInOkList == []C2_OneOutcomePerExchange /\ [][C2_Step]_vars

\* a list whose match is its second element has produced a true and a false
C2_Witness ==
    /\ Len(okCodes) = 2 /\ okCodes[1] # okCodes[2]
    /\ sentTrue >= 1 /\ sentFalse >= 1

\* C3: once the aggregator has consumed every Outcome handed over, okCount is
\* the number of true events and errCount the number of false ones, whatever
\* the number of workers sending and their interleaving.
C3_CountsMatchEvents ==
    aggPc = "recv" => (okCount = sentTrue /\ errCount = sentFalse)

\* two different workers have each delivered an Outcome, one true one false,
\* and both are counted
C3_Witness ==
    /\ aggPc = "recv" /\ okCount = 1 /\ errCount = 1
    /\ \E v, w \in DOMAIN workers : v # w /\ workers[v].outs >= 1 /\ workers[w].outs >= 1

\* C4: each tick starts floor(R / C) + 1 workers, worker i gets
\* min(C, R mod ((i+1) * C)) requests, and no batch exceeds C.
C4_Partition ==
    /\ \A k \in DOMAIN workers :
          /\ workers[k].n = Min(cap, rps % ((workers[k].idx + 1) * cap))
          /\ workers[k].n <= cap
          /\ workers[k].idx = (k - 1) % ((rps \div cap) + 1)
          /\ workers[k].tick = ((k - 1) \div ((rps \div cap) + 1)) + 1
    /\ schedPc = "wait" => Len(workers) = ticks * ((rps \div cap) + 1)
    /\ schedPc = "spawn" => Len(workers) = (ticks - 1) * ((rps \div cap) + 1) + schedI

\* a finished tick with several workers, one of them capped and one not
C4_Witness ==
    /\ schedPc = "wait" /\ ticks >= 1 /\ rps >= 2 * cap
    /\ \E k \in DOMAIN workers : workers[k].n = cap
    /\ \E k \in DOMAIN workers : workers[k].n > 0 /\ workers[k].n < cap

\* C5 (as claimed): under fair scheduling every Outcome handed over on the
\* responses channel is eventually counted, and every worker waiting to hand
\* one over eventually does.
C5_EveryOutcomeCounted ==
    /\ \A n \in 1..MaxRequests : (sent >= n) ~> (okCount + errCount >= n)
    /\ \A w \in WorkerIds :
          (w \in DOMAIN workers /\ workers[w].pc = "sendOut")
              ~> (w \in DOMAIN workers /\ workers[w].pc # "sendOut")

\* C5 (amended): the same, unless the process ends first; and no Outcome is
\* ever counted twice or in the wrong counter.
C5_CountedUnlessEnded ==
    /\ [](okCount <= sentTrue /\ errCount <= sentFalse)
    /\ \A n \in 1..MaxRequests :
          (sent >= n) ~> (okCount + errCount >= n \/ ~Running)
    /\ \A w \in WorkerIds :
          (w \in DOMAIN workers /\ workers[w].pc = "sendOut")
              ~> ((w \in DOMAIN workers /\ workers[w].pc # "sendOut") \/ ~Running)

\* two workers wait to hand over an Outcome while the aggregator still holds
\* the one it received before
C5_Witness ==
    /\ Running /\ aggPc = "count"
    /\ \E v, w \in DOMAIN workers :
          v # w /\ workers[v].pc = "sendOut" /\ workers[w].pc = "sendOut"

\* history: Outcome events the workers have handed over, summed over the
\* goroutines
RECURSIVE outsUpTo(_)
outsUpTo(k) == IF k = 0 THEN 0 ELSE workers[k].outs + outsUpTo(k - 1)

\* C6 (as claimed): in every reachable state okCount + errCount is the number
\* of requests that completed with a response and whose Outcome the
\* aggregator has received.
C6_SumIsReceived ==
    okCount + errCount = outsUpTo(Len(workers))

\* C6 (amended): okCount + errCount is that number less the one Outcome the
\* aggregator has received (line 66) and not yet added (lines 67-71).
C6_SumIsCounted ==
    /\ outsUpTo(Len(workers)) = sent
    /\ okCount + errCount = sent - (IF aggPc = "count" THEN 1 ELSE 0)

\* the aggregator holds a received Outcome after it has counted another
C6_Witness ==
    aggPc = "count" /\ okCount + errCount >= 1

\* C7: a worker given a batch of N requests makes exactly N attempts, each
\* with exactly one event, whatever the mix of responses and transport
\* errors: a goroutine that has ended, by returning or by its own panic, has
\* made n attempts and delivered n events.
C7_BatchOfNMakesNAttempts ==
    \A w \in DOMAIN workers :
        (WorkerDone(w) \/ (workers[w].pc = "close" /\ proc = "crashed")) =>
            /\ workers[w].tries = workers[w].n
            /\ workers[w].outs + workers[w].fatals = workers[w].n

\* the current request of worker w returned a transport error
C8_Failed(w) == workers[w].pc \in {"sendFatal", "close"}

\* a worker whose request failed stays so and hands over nothing; a step into
\* or within that condition leaves the counters and the aggregator alone
C8_Step ==
    \A w \in DOMAIN workers :
        /\ C8_Failed(w) =>
              /\ workers'[w].outs = workers[w].outs
              /\ workers'[w].i = workers[w].i
              /\ workers'[w].tries = workers[w].tries
              /\ C8_Failed(w)'
        /\ (workers[w].pc # workers'[w].pc /\ C8_Failed(w)') =>
              /\ <<okCount, errCount, sentTrue, sentFalse>>'
                    = <<okCount, errCount, sentTrue, sentFalse>>
              /\ aggPc' = aggPc

\* C8: a request that fails at the transport layer emits only a Fatal event:
\* no Outcome is handed over for it, then or later, and the failure and its
\* Fatal send leave okCount and errCount unchanged.
C8_NoOutcomeForFailedRequest ==
    /\ [](\A w \in DOMAIN workers :
             C8_Failed(w) => workers[w].outs = workers[w].tries - 1)
    /\ [][C8_Step]_vars

\* a worker whose first request was answered and counted has delivered the
\* transport error of its second request, and the process has ended
C8_Witness ==
    /\ ~Running
    /\ \E w \in DOMAIN workers :
          workers[w].pc = "close" /\ workers[w].outs = 1 /\ workers[w].fatals = 1
    /\ okCount + errCount = 1

\* the scheduler is between ticks, every request of every worker started so
\* far was answered with a code of the ok list, and every Outcome is counted
C9_AllAnswered ==
    /\ schedPc = "wait"
    /\ \A w \in DOMAIN workers : WorkerDone(w)
    /\ aggPc = "recv"
    /\ sentFalse = 0

\* C9: with R < C every tick starts one worker with batch size R, and after k
\* ticks whose requests were all answered with a code of the ok list and
\* counted, okCount = k * R and errCount = 0.
C9_OneWorkerPerTick ==
    rps < cap =>
        /\ \A w \in DOMAIN workers : workers[w].n = rps /\ workers[w].tick = w
        /\ schedPc = "wait" => Len(workers) = ticks
        /\ C9_AllAnswered => (okCount = ticks * rps /\ errCount = 0)

\* two ticks of one request each, both answered 200 and counted
C9_Witness ==
    /\ rps < cap /\ rps >= 1 /\ ticks = 2
    /\ C9_AllAnswered
    /\ okCount = 2

\* C10: in every line the reporter logs, the total is the ok count plus the
\* failure count.
C10_LoggedTotalIsSum ==
    repPc = "log" => repSent = repOk + repErr

\* a request of some worker has returned a transport error
SomeTransportError ==
    \E w \in DOMAIN workers : workers[w].pc \in {"sendFatal", "close"}

\* C11: the controller leaves its receive of line 116, and the process ends,
\* only after a Fatal event: as long as no request has returned a transport
\* error the controller is blocked, the process runs, and the scheduler has
\* its next tick ahead of it (the timer is set, or has fired, or the tick is
\* being processed). There is no other terminal state.
C11_EndsOnlyOnFatal ==
    /\ ~SomeTransportError =>
          /\ ctl = "wait" /\ Running
          /\ ticks < MaxTicks => (timerArmed \/ timerC = 1 \/ schedPc = "spawn")
    /\ ctl = "fatal" => \E w \in DOMAIN workers : workers[w].fatals = 1
    /\ ~Running => ctl = "fatal"

\* every request of the run so far was answered and counted, no transport
\* error occurred, and the controller is still blocked with the timer set
C11_Witness ==
    /\ ~SomeTransportError /\ ctl = "wait" /\ Running
    /\ ticks = 1 /\ schedPc = "wait" /\ timerArmed
    /\ okCount + errCount = 2

\* C12: okCount and errCount never decrease; a step of the aggregator's
\* lines 67-71 adds exactly 1 to exactly one of them; no step of the
\* scheduler, a worker, the reporter or the controller changes either.
C12_Step ==
    IF aggPc = "count" /\ aggPc' = "recv"
    THEN \/ okCount' = okCount + 1 /\ errCount' = errCount
         \/ okCount' = okCount /\ errCount' = errCount + 1
    ELSE okCount' = okCount /\ errCount' = errCount

C12_OnlyAggregatorCounts == [][C12_Step]_vars

\* both counters have been raised while workers, reporter and scheduler ran
C12_Witness ==
    /\ okCount >= 1 /\ errCount >= 1
    /\ repPc # "sum1" /\ ticks = 2

\* the batch sizes of the workers of tick t, in spawn order
batchesOfTick(t) ==
    LET ids == {k \in DOMAIN workers : workers[k].tick = t}
    IN  [j \in 1..Cardinality(ids) |->
            workers[CHOOSE k \in ids : workers[k].idx = j - 1].n]

\* C13: every tick produces the same batch sizes as the first tick, whatever
\* the counters are and however many workers of earlier ticks are still
\* running; while a tick is being processed its batches so far are the first
\* tick's.
C13_EveryTickLikeTheFirst ==
    /\ \A k \in DOMAIN workers :
          /\ workers[k].idx + 1 <= Len(batchesOfTick(1))
          /\ workers[k].n = batchesOfTick(1)[workers[k].idx + 1]
    /\ schedPc = "wait" =>
          \A t \in 1..ticks : batchesOfTick(t) = batchesOfTick(1)

\* the second tick has been processed while the worker of the first tick is
\* still at work and a response has been counted
C13_Witness ==
    /\ schedPc = "wait" /\ ticks = 2 /\ rps = 2
    /\ workers[1].i = 1 /\ workers[1].pc = "sendOut"
    /\ okCount + errCount = 1

\* C14: on a transport error the worker does not dereference the nil
\* response: no worker runs resp.Body.Close() (line 135) or reads
\* resp.StatusCode for a request that returned an error, so the process never
\* dies of the nil dereference.
C14_NilResponseNotUsed == proc # "crashed"

\* C15: in a worker with a batch of N > 1, the step that follows the
\* delivery of a transport error takes the worker on to the remaining
\* iterations of its loop: it does not end the worker.
C15_RemainingIterationsRun ==
    [][\A w \in DOMAIN workers :
          (workers[w].pc = "close" /\ workers[w].n > 1
                /\ workers[w].tries < workers[w].n)
             => proc' # "crashed"]_vars

\* Fatal events delivered so far, summed over the goroutines
RECURSIVE fatalsUpTo(_)
fatalsUpTo(k) == IF k = 0 THEN 0 ELSE workers[k].fatals + fatalsUpTo(k - 1)

\* a worker blocked on fatal <- err after the controller's receive stays as
\* it is
C16_Step ==
    \A w \in DOMAIN workers :
        (ctl = "fatal" /\ workers[w].pc = "sendFatal") => workers'[w] = workers[w]

\* C16: the controller receives from the Fatal channel at most once in a run;
\* a worker that hits a transport error after (or at the same time as) the
\* one that was received stays blocked on its send and emits nothing more.
C16_OneFatalReceived ==
    /\ [](fatalsUpTo(Len(workers)) <= 1)
    /\ [](fatalsUpTo(Len(workers)) = (IF ctl = "fatal" THEN 1 ELSE 0))
    /\ [][C16_Step]_vars

\* one worker's transport error was received; another worker is blocked on
\* sending its own, and the process has ended
C16_Witness ==
    /\ ctl = "fatal" /\ ~Running
    /\ \E v, w \in DOMAIN workers :
          /\ workers[v].fatals = 1
          /\ workers[w].pc = "sendFatal" /\ workers[w].fatals = 0

RECURSIVE sumSeq(_)
sumSeq(s) == IF s = <<>> THEN 0 ELSE Head(s) + sumSeq(Tail(s))

\* requests handed to the goroutines of tick t by the loop of lines 104-111
tickTotal(t) == sumSeq(batchesOfTick(t))

\* C17: the partition is not exact: when the rate is a multiple of the cap
\* and at least twice the cap, the batch sizes of a finished tick do not sum
\* to the rate.
C17_MultiplesOfCapMissTheRate ==
    (schedPc = "wait" /\ rps % cap = 0 /\ rps >= 2 * cap)
       => \A t \in 1..ticks : tickTotal(t) # rps

\* a finished tick at rate 2 * cap whose three batches sum to less than the
\* rate
C17_Witness ==
    /\ schedPc = "wait" /\ ticks = 1
    /\ rps = 2 * cap /\ cap = maxRequestsPerThread
    /\ Len(batchesOfTick(1)) = numThreads(rps, cap)
    /\ tickTotal(1) = cap

\* C18: for every rate and every positive cap the batch sizes of one tick
\* sum to at most the rate, at every point of the spawn loop and once the
\* tick is finished: a tick never starts more requests than the rate.
C18_TickTotalAtMostRate == \A t \in 1..ticks : tickTotal(t) <= rps

\* a finished tick of three or more goroutines that hands out some requests
\* but fewer than the rate, after an earlier tick did the same
C18_Witness ==
    /\ schedPc = "wait" /\ ticks = MaxTicks
    /\ Len(batchesOfTick(ticks)) >= numThreads(2 * cap, cap)
    /\ tickTotal(ticks) > 0 /\ tickTotal(ticks) < rps

\* a goroutine that has done nothing: no request issued, no event delivered,
\* not waiting on any channel
Idle(w) == workers[w] = newWorker(workers[w].tick, workers[w].idx, workers[w].n)

\* C19: at rate 0 every tick spawns exactly one worker, with batch size 0;
\* it issues no request and emits no Outcome or Fatal event, both counters
\* stay 0 and the run does not end. At any rate, a worker spawned with a
\* zero-sized batch does nothing.
C19_ZeroBatchDoesNothing ==
    /\ \A w \in DOMAIN workers : workers[w].n = 0 => Idle(w)
    /\ rps = 0 =>
          /\ \A w \in DOMAIN workers : workers[w].n = 0 /\ workers[w].idx = 0
          /\ \A t \in 1..ticks :
                Len(batchesOfTick(t)) = (IF t = ticks /\ schedPc = "spawn" THEN schedI ELSE 1)
          /\ schedI <= 1
          /\ issued = 0 /\ sent = 0
          /\ okCount = 0 /\ errCount = 0
          /\ ctl = "wait" /\ Running

\* rate 0 after the last tick of the bound: one idle worker per tick, the
\* timer armed again, and the reporter about to log its zeros
C19_Witness ==
    /\ rps = 0 /\ ticks = MaxTicks /\ schedPc = "wait" /\ timerArmed
    /\ Len(workers) = ticks
    /\ \A w \in DOMAIN workers : workers[w].n = 0 /\ Idle(w)
    /\ repPc = "log" /\ repSent = 0
    /\ Running

\* goroutines of sendNRequests that have not returned
LiveWorkers == {w \in DOMAIN workers : ~WorkerDone(w)}

\* C20: the scheduler never waits for workers of earlier ticks: once the
\* timer has fired it can take the tick, and in its loop it can spawn or
\* reset, whatever the workers are doing; every finished tick has spawned its
\* rps / cap + 1 workers. (Ticks are counted up to MaxTicks.)
C20_SchedulerNeverWaits ==
    /\ (Running /\ schedPc = "wait" /\ timerC = 1 /\ ticks < MaxTicks)
          => ENABLED SchedWait
    /\ (Running /\ schedPc = "spawn") => ENABLED (SchedSpawn \/ SchedReset)
    /\ schedPc = "wait" =>
          \A t \in 1..ticks : Len(batchesOfTick(t)) = numThreads(rps, cap)

\* overlapping ticks: the last tick of the bound has spawned its worker while
\* the worker of the first tick is blocked sending its Outcome to a busy
\* aggregator, so every worker spawned so far is live
C20_Witness ==
    /\ Running /\ schedPc = "wait" /\ ticks = MaxTicks
    /\ Cardinality(LiveWorkers) = MaxTicks * numThreads(rps, cap)
    /\ workers[1].tick = 1 /\ workers[1].pc = "sendOut" /\ aggPc = "count"
    /\ \E w \in LiveWorkers : workers[w].tick = ticks /\ workers[w].tries = 0

====
